---- MODULE Spec2Model ----
(***************************************************************************)
(* AuthService (src/src/modules/auth/dto/req/sign-in.req.dto.ts): the      *)
(* sign-up, sign-in, logout and refresh flows over the user store, the     *)
(* refresh-token store and the access-token cache.  Every request runs as  *)
(* one task; a task yields at each await, so the steps of different        *)
(* requests interleave.  The two calls of a Promise.all take effect in     *)
(* either order.                                                           *)
(***************************************************************************)
EXTENDS Naturals, FiniteSets, Sequences

\* ---------------------------------------------------------------- bounds
MaxInFlight == 2
MaxUsers == 2
MaxTokens == 2
MaxOverlaps == 1
MaxFaults == 1

Slots == 1..MaxInFlight
Emails == {"a@x.com", "b@x.com"}
Passwords == {"p1", "p2"}
\* The password each email registers with; a sign-in may try either password.
PasswordOf(email) == IF email = "a@x.com" THEN "p1" ELSE "p2"
Devices == {"d1", "d2"}
UserIds == 1..MaxUsers

VARIABLES users, refreshTokens, cacheTokens, issued, reqs, overlaps, raced, faults

vars == <<users, refreshTokens, cacheTokens, issued, reqs, overlaps, raced, faults>>
stores == <<refreshTokens, cacheTokens>>

\* ------------------------------------------------------- collaborators
\* bcrypt.hash / bcrypt.compare: a one-way hash and its verification.
Hash(password) == <<"bcrypt", password>>
Compare(password, hash) == hash = Hash(password)

\* JavaScript values an `if` may test, and their truthiness: a boolean is
\* itself, an object (a Promise among them) is always truthy.
Bool(b) == [kind |-> "boolean", value |-> b]
Promise(b) == [kind |-> "promise", value |-> b]
Truthy(v) == IF v.kind = "boolean" THEN v.value ELSE TRUE

\* TokenService.generateAuthTokens: the n-th pair issued.
AccessToken(n) == <<"access", n>>
RefreshToken(n) == <<"refresh", n>>

\* userRepository.findOne({ where: { email } }): the id of the user, 0 for null.
FindByEmail(email) ==
  IF \E i \in 1..Len(users) : users[i].email = email
  THEN CHOOSE i \in 1..Len(users) :
         /\ users[i].email = email
         /\ \A j \in 1..Len(users) : users[j].email = email => i <= j
  ELSE 0

\* userRepository.findOneBy({ id }): the id when the row exists, 0 for null.
FindById(id) == IF id \in 1..Len(users) THEN id ELSE 0

\* userService.isEmailUniqOrThrow: Conflict when a user holds the email.
IsEmailUniqOrThrow(email) == IF FindByEmail(email) = 0 THEN "ok" ELSE "Conflict"

\* CanInsert on a users table whose email column is not unique.
CanInsertAlways(row) == TRUE

\* The users table after userRepository.save of a new row; the email column is
\* unique, so a second row with a stored email is refused and nothing is written.
CanInsert(row) == \A i \in 1..Len(users) : users[i].email # row.email
Insert(row) == Append(users, row)

Entry(u, d, t) == [userId |-> u, deviceId |-> d, token |-> t]
Of(store, u, d) == {x \in store : x.userId = u /\ x.deviceId = d}

\* refreshRepository.saveToken / authCacheService.saveToken: the pair's
\* entry becomes the token.
SaveToken(store, u, d, t) == (store \ Of(store, u, d)) \cup {Entry(u, d, t)}
\* refreshRepository.delete / authCacheService.removeToken: delete if present.
DeleteToken(store, u, d) == store \ Of(store, u, d)

\* The tokens the two stores hold for the pair (u, d).
Stored(u, d) == {x.token : x \in Of(refreshTokens, u, d) \cup Of(cacheTokens, u, d)}

\* ------------------------------------------------------------- requests
\* A request in flight: the call's arguments, its locals (user, tokens), where
\* it stands (pc, pending), how it ended (result, why), and what was seen of
\* it: check (the outcome of signUpAdmin's re-verification), before (the pair's
\* tokens when the call arrived), clash (the other requests that wrote the pair
\* while this one was in flight), failed (the store whose operation was
\* rejected).  raced holds the pairs a request has written
\* while another request was in flight on the same pair, faults counts the
\* store operations rejected so far.
Idle ==
  [op |-> "idle", email |-> "", password |-> "", deviceId |-> "", userId |-> 0,
   pc |-> "idle", user |-> 0, tokens |-> 0, pending |-> {}, result |-> "none",
   why |-> "none", check |-> "none", clash |-> {}, before |-> {},
   failed |-> "none"]

InFlight(r) == reqs[r].op # "idle"
IssuesTokens(q) == q.op \in {"signUp", "signUpAdmin", "signIn", "refreshToken"}
CreatesUser(q) == q.op \in {"signUp", "signUpAdmin"}

\* Tokens and users the requests in flight may still ask for.
TokensOwed == Cardinality({r \in Slots : IssuesTokens(reqs[r]) /\ reqs[r].tokens = 0
                                          /\ reqs[r].result = "none"})
UsersOwed == Cardinality({r \in Slots : CreatesUser(reqs[r]) /\ reqs[r].user = 0
                                         /\ reqs[r].result = "none"})

\* A row of the users table as signUp writes it.
Registered(email) ==
  [email |-> email, password |-> Hash(PasswordOf(email)), role |-> "user"]

\* The service starts on a database that is empty or holds a user registered
\* earlier, with no session in either token store.
Init ==
  /\ users \in {<<>>, <<Registered("a@x.com")>>}
  /\ refreshTokens = {}
  /\ cacheTokens = {}
  /\ issued = 0
  /\ reqs = [r \in Slots |-> Idle]
  /\ overlaps = 0
  /\ raced = {}
  /\ faults = 0

\* The user of the pair a request works on, 0 while it is not known.
PairUser(q) == IF q.op \in {"logout", "refreshToken"} THEN q.userId ELSE q.user

\* Another request is in flight on the pair (u, d).
Shared(r, u, d) ==
  \E q \in Slots \ {r} :
    InFlight(q) /\ PairUser(reqs[q]) = u /\ reqs[q].deviceId = d

\* Request r becomes `new` without touching a store.
Local(r, new) ==
  /\ reqs' = [reqs EXCEPT ![r] = new]
  /\ UNCHANGED <<raced, faults>>

\* Request r becomes `new` by a store operation on the pair (u, d): every other
\* request in flight on that pair records that r wrote the pair under it, and
\* the pair is then one that requests have raced on.
Touch(r, new, u, d) ==
  /\ reqs' = [q \in Slots |->
               IF q = r THEN new
               ELSE IF InFlight(q) /\ PairUser(reqs[q]) = u /\ reqs[q].deviceId = d
                    THEN [reqs[q] EXCEPT !.clash = @ \cup {r}]
                    ELSE reqs[q]]
  /\ raced' = IF Shared(r, u, d) THEN raced \cup {<<u, d>>} ELSE raced
  /\ UNCHANGED faults

Thrown(q, kind, cause) ==
  [q EXCEPT !.pc = "ret", !.result = kind, !.why = cause, !.pending = {}]

BothStores == {"refresh", "cache"}

\* tokenService.generateAuthTokens({ userId, deviceId })
Generated(q, next, pend) ==
  [q EXCEPT !.tokens = issued + 1, !.pc = next, !.pending = pend]

\* A request arrives in slot r, the lowest free one, and runs to its first
\* await that reads or writes a store; `new` is the request after it.  Once the
\* last store fault admitted has happened, the requests in flight run to
\* their return and no further one arrives.
Arrive(r, new) ==
  /\ ~InFlight(r)
  /\ faults < MaxFaults
  /\ \A o \in Slots : o < r => InFlight(o)
  /\ IssuesTokens(new) /\ new.result = "none" => issued + TokensOwed < MaxTokens
  /\ CreatesUser(new) /\ new.result = "none" => Len(users) + UsersOwed < MaxUsers
  /\ IF \E o \in Slots : InFlight(o)
     THEN overlaps < MaxOverlaps /\ overlaps' = overlaps + 1
     ELSE UNCHANGED overlaps
  /\ Local(r, new)

\* ----------------------------------------------- signUp and signUpAdmin
\* EmailCheck with the rejection of isEmailUniqOrThrow not propagated.
EmailCheckIgnored(q) == [q EXCEPT !.pc = "create"]

\* await userService.isEmailUniqOrThrow(dto.email)
EmailCheck(q) ==
  IF IsEmailUniqOrThrow(q.email) = "ok" THEN [q EXCEPT !.pc = "create"]
  ELSE Thrown(q, IsEmailUniqOrThrow(q.email), "dup")

CallSignUp(r) ==
  /\ \E e \in Emails, d \in Devices :
       Arrive(r, EmailCheck([Idle EXCEPT !.op = "signUp", !.email = e,
                                         !.password = PasswordOf(e), !.deviceId = d]))
  /\ UNCHANGED <<users, refreshTokens, cacheTokens, issued>>

CallSignUpAdmin(r) ==
  /\ \E e \in Emails, d \in Devices :
       Arrive(r, EmailCheck([Idle EXCEPT !.op = "signUpAdmin", !.email = e,
                                         !.password = PasswordOf(e), !.deviceId = d]))
  /\ UNCHANGED <<users, refreshTokens, cacheTokens, issued>>

\* DoSave with the two tokens handed to the wrong stores.
DoSaveSwapped(r, which) ==
  LET q == reqs[r]
      left == q.pending \ {which}
      new == IF left = {} THEN [q EXCEPT !.pending = {}, !.pc = "ret", !.result = "ok"]
             ELSE [q EXCEPT !.pending = left]
  IN /\ q.pc = "save"
     /\ which \in q.pending
     /\ IF which = "refresh"
        THEN /\ refreshTokens' = SaveToken(refreshTokens, q.user, q.deviceId,
                                           AccessToken(q.tokens))
             /\ UNCHANGED cacheTokens
        ELSE /\ cacheTokens' = SaveToken(cacheTokens, q.user, q.deviceId,
                                         RefreshToken(q.tokens))
             /\ UNCHANGED refreshTokens
     /\ Touch(r, new, q.user, q.deviceId)
     /\ UNCHANGED <<users, issued, overlaps>>

\* DoSave returning after the first save to land, the other one given up.
DoSaveFirstOnly(r, which) ==
  LET q == reqs[r]
  IN /\ q.pc = "save"
     /\ which \in q.pending
     /\ IF which = "refresh"
        THEN /\ refreshTokens' = SaveToken(refreshTokens, q.user, q.deviceId,
                                           RefreshToken(q.tokens))
             /\ UNCHANGED cacheTokens
        ELSE /\ cacheTokens' = SaveToken(cacheTokens, q.user, q.deviceId,
                                         AccessToken(q.tokens))
             /\ UNCHANGED refreshTokens
     /\ Touch(r, [q EXCEPT !.pending = {}, !.pc = "ret", !.result = "ok"],
              q.user, q.deviceId)
     /\ UNCHANGED <<users, issued, overlaps>>

\* One of the pending saves of a Promise.all([saveToken, saveToken]) lands.
DoSave(r, which) ==
  LET q == reqs[r]
      left == q.pending \ {which}
      new == IF left = {} THEN [q EXCEPT !.pending = {}, !.pc = "ret", !.result = "ok"]
             ELSE [q EXCEPT !.pending = left]
  IN /\ q.pc = "save"
     /\ which \in q.pending
     /\ IF which = "refresh"
        THEN /\ refreshTokens' = SaveToken(refreshTokens, q.user, q.deviceId,
                                           RefreshToken(q.tokens))
             /\ UNCHANGED cacheTokens
        ELSE /\ cacheTokens' = SaveToken(cacheTokens, q.user, q.deviceId,
                                         AccessToken(q.tokens))
             /\ UNCHANGED refreshTokens
     /\ Touch(r, new, q.user, q.deviceId)
     /\ UNCHANGED <<users, issued, overlaps>>

\* DoDelete with the join taken after the first delete: the flow goes on
\* while the other delete is still under way.
DoDeleteJoinsEarly(r, which, joined) ==
  LET q == reqs[r]
  IN /\ q.pc = "del"
     /\ which \in q.pending
     /\ IF which = "refresh"
        THEN /\ refreshTokens' = DeleteToken(refreshTokens, PairUser(q), q.deviceId)
             /\ UNCHANGED cacheTokens
        ELSE /\ cacheTokens' = DeleteToken(cacheTokens, PairUser(q), q.deviceId)
             /\ UNCHANGED refreshTokens
     /\ Touch(r, joined, PairUser(q), q.deviceId)
     /\ UNCHANGED <<users, overlaps>>

\* DoDelete with the device left out of the criteria: every device of the user
\* loses its record or entry.
DoDeleteEveryDevice(r, which, joined) ==
  LET q == reqs[r]
      left == q.pending \ {which}
      new == IF left = {} THEN joined ELSE [q EXCEPT !.pending = left]
  IN /\ q.pc = "del"
     /\ which \in q.pending
     /\ IF which = "refresh"
        THEN /\ refreshTokens' = {x \in refreshTokens : x.userId # PairUser(q)}
             /\ UNCHANGED cacheTokens
        ELSE /\ cacheTokens' = {x \in cacheTokens : x.userId # PairUser(q)}
             /\ UNCHANGED refreshTokens
     /\ Touch(r, new, PairUser(q), q.deviceId)
     /\ UNCHANGED <<users, overlaps>>

\* One of the pending deletes of a Promise.all([delete, removeToken]) lands;
\* `joined` is the request once both have.
DoDelete(r, which, joined) ==
  LET q == reqs[r]
      left == q.pending \ {which}
      new == IF left = {} THEN joined ELSE [q EXCEPT !.pending = left]
  IN /\ q.pc = "del"
     /\ which \in q.pending
     /\ IF which = "refresh"
        THEN /\ refreshTokens' = DeleteToken(refreshTokens, PairUser(q), q.deviceId)
             /\ UNCHANGED cacheTokens
        ELSE /\ cacheTokens' = DeleteToken(cacheTokens, PairUser(q), q.deviceId)
             /\ UNCHANGED refreshTokens
     /\ Touch(r, new, PairUser(q), q.deviceId)
     /\ UNCHANGED <<users, overlaps>>

\* signUp lines 39-46: bcrypt.hash, userRepository.save, generateAuthTokens;
\* the two saves of the Promise.all are then under way.
SignUpSave(r) ==
  LET q == reqs[r]
      row == [email |-> q.email, password |-> Hash(q.password), role |-> "user"]
  IN /\ q.op = "signUp"
     /\ q.pc = "create"
     /\ IF CanInsert(row)
        THEN /\ users' = Insert(row)
             /\ issued' = issued + 1
             /\ Local(r, Generated([q EXCEPT !.user = Len(users) + 1], "save", BothStores))
        ELSE /\ Local(r, Thrown(q, "QueryFailed", "unique"))
             /\ UNCHANGED <<users, issued>>
     /\ UNCHANGED <<refreshTokens, cacheTokens, overlaps>>

SignUpWrite(r) ==
  /\ reqs[r].op = "signUp"
  /\ \E which \in BothStores : DoSave(r, which)
  /\ UNCHANGED issued

\* const isPasswordValid = bcrypt.compare(...): the call is not awaited, so the
\* value tested is the Promise, whatever it resolves to.
IsPasswordValid(resolved) == Promise(resolved)

\* signUpAdmin lines 65-76: bcrypt.hash, create, role = ADMIN, save; then the
\* re-verification and generateAuthTokens.  libOk = FALSE is the hashing library
\* failing to verify the hash it has just computed.
SignUpAdminSave(r) ==
  LET q == reqs[r]
      row == [email |-> q.email, password |-> Hash(q.password), role |-> "admin"]
  IN /\ q.op = "signUpAdmin"
     /\ q.pc = "create"
     /\ IF CanInsert(row)
        THEN /\ users' = Insert(row)
             /\ \E libOk \in BOOLEAN :
                  LET resolved == libOk /\ Compare(q.password, row.password)
                      seen == [q EXCEPT !.user = Len(users) + 1,
                                        !.check = IF resolved THEN "pass" ELSE "fail"]
                  IN IF ~Truthy(IsPasswordValid(resolved))
                     THEN /\ Local(r, Thrown(seen, "Unauthorized", "selfcheck"))
                          /\ UNCHANGED issued
                     ELSE /\ issued' = issued + 1
                          /\ Local(r, Generated(seen, "save", BothStores))
        ELSE /\ Local(r, Thrown(q, "QueryFailed", "unique"))
             /\ UNCHANGED <<users, issued>>
     /\ UNCHANGED <<refreshTokens, cacheTokens, overlaps>>

SignUpAdminWrite(r) ==
  /\ reqs[r].op = "signUpAdmin"
  /\ \E which \in BothStores : DoSave(r, which)
  /\ UNCHANGED issued

\* ---------------------------------------------------------------- signIn
\* Lines 93-111: findOne by email and the awaited bcrypt.compare, either failure
\* being Unauthorized; then findOneBy({ id }) and generateAuthTokens, after which the
\* two deletes are under way.
\* SignInFind without the throw on a password mismatch.
SignInFindAnyPassword(q) ==
  LET userEntity == FindByEmail(q.email)
  IN IF userEntity = 0
     THEN Thrown(q, "Unauthorized", "nouser")
     ELSE Generated([q EXCEPT !.user = FindById(userEntity)], "del", BothStores)

\* SignInFind telling an unknown email apart from a wrong password.
SignInFindNotFound(q) ==
  LET userEntity == FindByEmail(q.email)
  IN IF userEntity = 0
     THEN Thrown(q, "NotFound", "nouser")
     ELSE IF ~Truthy(Bool(Compare(q.password, users[userEntity].password)))
          THEN Thrown(q, "Unauthorized", "badpw")
          ELSE Generated([q EXCEPT !.user = FindById(userEntity)], "del", BothStores)

\* SignInFind refusing a device that already holds a session.
SignInFindRejectsActive(q) ==
  LET userEntity == FindByEmail(q.email)
  IN IF userEntity = 0
     THEN Thrown(q, "Unauthorized", "nouser")
     ELSE IF ~Truthy(Bool(Compare(q.password, users[userEntity].password)))
          THEN Thrown(q, "Unauthorized", "badpw")
          ELSE IF Stored(userEntity, q.deviceId) # {}
               THEN Thrown(q, "Conflict", "active")
               ELSE Generated([q EXCEPT !.user = FindById(userEntity)], "del", BothStores)

SignInFind(q) ==
  LET userEntity == FindByEmail(q.email)
  IN IF userEntity = 0
     THEN Thrown(q, "Unauthorized", "nouser")
     ELSE IF ~Truthy(Bool(Compare(q.password, users[userEntity].password)))
          THEN Thrown(q, "Unauthorized", "badpw")
          ELSE Generated([q EXCEPT !.user = FindById(userEntity)], "del", BothStores)

CallSignIn(r) ==
  \E e \in Emails, p \in Passwords, d \in Devices :
    LET new == SignInFind([Idle EXCEPT !.op = "signIn", !.email = e,
                                       !.password = p, !.deviceId = d,
                                       !.before = Stored(FindByEmail(e), d)])
    IN /\ Arrive(r, new)
       /\ issued' = IF new.result = "none" THEN issued + 1 ELSE issued
       /\ UNCHANGED <<users, refreshTokens, cacheTokens>>

SignInDelete(r) ==
  /\ reqs[r].op = "signIn"
  /\ \E which \in BothStores :
       DoDelete(r, which, [reqs[r] EXCEPT !.pc = "save", !.pending = BothStores])
  /\ UNCHANGED issued

\* SignInWrite without the cache's saveToken: only the record is written.
SignInWriteRecordOnly(r) ==
  LET q == reqs[r]
  IN /\ q.op = "signIn"
     /\ q.pc = "save"
     /\ refreshTokens' = SaveToken(refreshTokens, q.user, q.deviceId,
                                   RefreshToken(q.tokens))
     /\ Touch(r, [q EXCEPT !.pc = "ret", !.pending = {}, !.result = "ok"],
              q.user, q.deviceId)
     /\ UNCHANGED <<users, cacheTokens, issued, overlaps>>

\* SignInWrite saving the user again with the password of the request as it
\* came, not hashed.
SignInWriteSavesUser(r) ==
  LET q == reqs[r]
  IN /\ q.op = "signIn"
     /\ q.pc = "save"
     /\ refreshTokens' = SaveToken(refreshTokens, q.user, q.deviceId,
                                   RefreshToken(q.tokens))
     /\ cacheTokens' = SaveToken(cacheTokens, q.user, q.deviceId,
                                 AccessToken(q.tokens))
     /\ users' = [users EXCEPT ![q.user].password = <<"plain", q.password>>]
     /\ Touch(r, [q EXCEPT !.pc = "ret", !.pending = {}, !.result = "ok"],
              q.user, q.deviceId)
     /\ UNCHANGED <<issued, overlaps>>

SignInWrite(r) ==
  /\ reqs[r].op = "signIn"
  /\ \E which \in BothStores : DoSave(r, which)
  /\ UNCHANGED issued

\* ---------------------------------------------------------------- logout
\* logout starts both deletes at once: nothing is awaited before them.
CallLogout(r) ==
  /\ \E u \in UserIds, d \in Devices :
       Arrive(r, [Idle EXCEPT !.op = "logout", !.userId = u, !.deviceId = d,
                              !.pc = "del", !.pending = BothStores,
                              !.before = Stored(u, d)])
  /\ UNCHANGED <<users, refreshTokens, cacheTokens, issued>>

\* LogoutDelete as delete-or-fail: a logout that found nothing to delete throws.
LogoutDeleteOrFail(r) ==
  /\ reqs[r].op = "logout"
  /\ \E which \in BothStores :
       DoDelete(r, which,
                IF Stored(reqs[r].userId, reqs[r].deviceId) = {}
                THEN Thrown(reqs[r], "NotFound", "absent")
                ELSE [reqs[r] EXCEPT !.pc = "ret", !.pending = {}, !.result = "ok"])
  /\ UNCHANGED issued

\* LogoutDelete without the removeToken call: only the record is deleted.
LogoutKeepsCache(r) ==
  LET q == reqs[r]
  IN /\ q.op = "logout"
     /\ q.pc = "del"
     /\ refreshTokens' = DeleteToken(refreshTokens, q.userId, q.deviceId)
     /\ Touch(r, [q EXCEPT !.pc = "ret", !.pending = {}, !.result = "ok"],
              q.userId, q.deviceId)
     /\ UNCHANGED <<users, cacheTokens, issued, overlaps>>

LogoutDelete(r) ==
  /\ reqs[r].op = "logout"
  /\ \E which \in BothStores :
       DoDelete(r, which, [reqs[r] EXCEPT !.pc = "ret", !.pending = {},
                                          !.result = "ok"])
  /\ UNCHANGED issued

\* ---------------------------------------------------------- refreshToken
\* RefreshFind going on with userData.userId, whatever findOneBy returned.
RefreshFindUnchecked(q) ==
  [q EXCEPT !.user = q.userId, !.pc = "del", !.pending = BothStores]

\* findOneBy({ id: userData.userId }); user.id of a null user throws before
\* either delete is started.
RefreshFind(q) ==
  LET user == FindById(q.userId)
  IN IF user = 0
     THEN Thrown(q, "TypeError", "nulluser")
     ELSE [q EXCEPT !.user = user, !.pc = "del", !.pending = BothStores]

CallRefreshToken(r) ==
  /\ \E u \in UserIds, d \in Devices :
       Arrive(r, RefreshFind([Idle EXCEPT !.op = "refreshToken", !.userId = u,
                                          !.deviceId = d,
                                          !.before = Stored(u, d)]))
  /\ UNCHANGED <<users, refreshTokens, cacheTokens, issued>>

\* Lines 148-158: the two deletes, and generateAuthTokens once both are done.
RefreshDelete(r) ==
  /\ reqs[r].op = "refreshToken"
  /\ \E which \in BothStores :
       /\ DoDelete(r, which, Generated(reqs[r], "save", BothStores))
       /\ issued' = IF reqs[r].pending = {which} THEN issued + 1 ELSE issued

\* RefreshWrite without the record's saveToken: only the cache is written.
RefreshWriteCacheOnly(r) ==
  LET q == reqs[r]
  IN /\ q.op = "refreshToken"
     /\ q.pc = "save"
     /\ cacheTokens' = SaveToken(cacheTokens, q.user, q.deviceId,
                                 AccessToken(q.tokens))
     /\ Touch(r, [q EXCEPT !.pc = "ret", !.pending = {}, !.result = "ok"],
              q.user, q.deviceId)
     /\ UNCHANGED <<users, refreshTokens, issued, overlaps>>

RefreshWrite(r) ==
  /\ reqs[r].op = "refreshToken"
  /\ \E which \in BothStores : DoSave(r, which)
  /\ UNCHANGED issued

\* ---------------------------------------------------------------- return
\* The method's promise settles: the caller sees the result or the error.  A
\* call that failed on one operation of a Promise.all keeps its slot until the
\* other operation, which nothing cancels, has settled as well.
Return(r) ==
  /\ reqs[r].pc = "ret"
  /\ reqs[r].pending = {}
  /\ Local(r, Idle)
  /\ UNCHANGED <<users, refreshTokens, cacheTokens, issued, overlaps>>

Next ==
  \E r \in Slots :
    \/ CallSignUp(r)
    \/ CallSignUpAdmin(r)
    \/ CallSignIn(r)
    \/ CallLogout(r)
    \/ CallRefreshToken(r)
    \/ SignUpSave(r)
    \/ SignUpWrite(r)
    \/ SignUpAdminSave(r)
    \/ SignUpAdminWrite(r)
    \/ SignInDelete(r)
    \/ SignInWrite(r)
    \/ LogoutDelete(r)
    \/ RefreshDelete(r)
    \/ RefreshWrite(r)
    \/ Return(r)

Spec == Init /\ [][Next]_vars

\* ---------------------------------------------------------- store faults
\* The effect of the store operation of request q on store `which`: a save in
\* the save phase, a delete in the delete phase.
Applied(q, which, phase) ==
  LET token == IF which = "refresh" THEN RefreshToken(q.tokens) ELSE AccessToken(q.tokens)
      store == IF which = "refresh" THEN refreshTokens ELSE cacheTokens
  IN IF phase = "save" THEN SaveToken(store, PairUser(q), q.deviceId, token)
     ELSE DeleteToken(store, PairUser(q), q.deviceId)

\* StoreFails with a catch that undoes the other store's write before the
\* error is thrown again.
StoreFailsRolledBack(r) ==
  LET q == reqs[r]
  IN /\ q.pc \in {"save", "del"}
     /\ faults < MaxFaults
     /\ faults' = faults + 1
     /\ \E which \in q.pending :
          /\ reqs' = [reqs EXCEPT ![r] = [q EXCEPT !.pc = "ret", !.result = "StoreError",
                                                   !.why = q.pc, !.failed = which,
                                                   !.pending = {}]]
          /\ IF which = "refresh"
             THEN /\ cacheTokens' = DeleteToken(cacheTokens, PairUser(q), q.deviceId)
                  /\ UNCHANGED refreshTokens
             ELSE /\ refreshTokens' = DeleteToken(refreshTokens, PairUser(q), q.deviceId)
                  /\ UNCHANGED cacheTokens
     /\ UNCHANGED <<users, issued, overlaps, raced>>

\* One of the pending operations of a Promise.all is rejected by its store:
\* the await throws, no catch surrounds it, and the method ends with the
\* store's error.  The store is left as it was; the other operation, if it has
\* not landed yet, is still under way.
StoreFails(r) ==
  LET q == reqs[r]
  IN /\ q.pc \in {"save", "del"}
     /\ faults < MaxFaults
     /\ faults' = faults + 1
     /\ \E which \in q.pending :
          reqs' = [reqs EXCEPT ![r] = [q EXCEPT !.pc = "ret", !.result = "StoreError",
                                                !.why = q.pc, !.failed = which,
                                                !.pending = q.pending \ {which}]]
     /\ UNCHANGED <<users, refreshTokens, cacheTokens, issued, overlaps, raced>>

\* The operation a failed Promise.all left under way settles: it lands, or it
\* is rejected as well.
StraySettles(r) ==
  LET q == reqs[r]
      done == [q EXCEPT !.pending = {}]
  IN /\ q.pc = "ret"
     /\ \E which \in q.pending :
          \/ /\ which = "refresh"
             /\ refreshTokens' = Applied(q, which, q.why)
             /\ UNCHANGED cacheTokens
             /\ Touch(r, done, PairUser(q), q.deviceId)
          \/ /\ which = "cache"
             /\ cacheTokens' = Applied(q, which, q.why)
             /\ UNCHANGED refreshTokens
             /\ Touch(r, done, PairUser(q), q.deviceId)
          \/ /\ Local(r, done)
             /\ UNCHANGED <<refreshTokens, cacheTokens>>
     /\ UNCHANGED <<users, issued, overlaps>>

FaultNext ==
  \/ Next
  \/ \E r \in Slots :
       \/ StoreFails(r)
       \/ StraySettles(r)

FaultSpec == Init /\ [][FaultNext]_vars

\* ================================================================ claims
\* A call stands at its return: the caller may be handed the result now.
AtReturn(r) == reqs[r].pc = "ret"
Succeeded(r) == AtReturn(r) /\ reqs[r].result = "ok"
\* No other request deleted or wrote the pair while the call was in flight.
Undisturbed(r) == reqs[r].clash = {}
Records(r) == Of(refreshTokens, PairUser(reqs[r]), reqs[r].deviceId)
Entries(r) == Of(cacheTokens, PairUser(reqs[r]), reqs[r].deviceId)
\* The step is the arrival of a call in slot r.
Arrives(r) == ~InFlight(r) /\ InFlight(r)'
\* The step is one of request r's own.
Acts(r) ==
  InFlight(r) /\ (reqs'[r].pc # reqs[r].pc \/ reqs'[r].pending # reqs[r].pending)
\* A call that has thrown does nothing more than hand its error to the caller.
OnlyReturns(r) == Acts(r) => reqs'[r] = Idle /\ UNCHANGED <<users, stores, issued>>

SessionCount(r) ==
  IF reqs[r].op = "logout"
  THEN Records(r) = {} /\ Entries(r) = {}
  ELSE Cardinality(Records(r)) = 1 /\ Cardinality(Entries(r)) = 1

\* C1 as stated: when a successful signUp, signUpAdmin, signIn or refreshToken
\* call for a pair returns, the refresh-token store holds exactly one record and
\* the cache exactly one entry for the pair; when a logout returns, both hold
\* none.  A logout of the same pair landing between a sign-in's writes and its
\* return breaks it.
C1_AnyCallLeavesOneOrZero == \A r \in Slots : Succeeded(r) => SessionCount(r)

\* C1, amended: the same, for a call during which no other request deleted or
\* wrote the pair's record or entry.
C1_UndisturbedCallLeavesOneOrZero ==
  \A r \in Slots : Succeeded(r) /\ Undisturbed(r) => SessionCount(r)

C1_Witness ==
  \E r \in Slots, o \in Slots :
    /\ Succeeded(r) /\ Undisturbed(r) /\ reqs[r].op = "signIn"
    /\ o # r /\ InFlight(o)

\* The arriving signIn names a registered email with a password that is not
\* the user's.
WrongPassword(q) ==
  /\ q.op = "signIn"
  /\ FindByEmail(q.email) # 0
  /\ ~Compare(q.password, users[FindByEmail(q.email)].password)

\* C2: signIn with a registered email and a wrong password fails with
\* Unauthorized, and no step of the call changes the refresh-token record or
\* the cache entry of any pair, the targeted one included.
C2_WrongPasswordRejectedUntouched ==
  [][\A r \in Slots :
       /\ Arrives(r) /\ WrongPassword(reqs'[r]) =>
            /\ reqs'[r].pc = "ret"
            /\ reqs'[r].result = "Unauthorized"
            /\ UNCHANGED stores
       /\ reqs[r].why = "badpw" => OnlyReturns(r)]_vars

C2_Witness ==
  \E r \in Slots :
    /\ reqs[r].why = "badpw"
    /\ Of(refreshTokens, FindByEmail(reqs[r].email), reqs[r].deviceId) # {}
    /\ Of(cacheTokens, FindByEmail(reqs[r].email), reqs[r].deviceId) # {}

\* What the caller of a failed call is handed.
Seen(q) == [result |-> q.result, user |-> q.user, tokens |-> q.tokens]
Rejected == [result |-> "Unauthorized", user |-> 0, tokens |-> 0]

\* C3: a signIn whose email matches no user and a signIn with a wrong password
\* hand the caller the same Unauthorized error, and neither modifies a store.
C3_UnknownEmailLooksLikeWrongPassword ==
  [][\A r \in Slots :
       /\ Arrives(r) /\ reqs'[r].op = "signIn" /\ FindByEmail(reqs'[r].email) = 0 =>
            /\ reqs'[r].why = "nouser"
            /\ UNCHANGED stores
       /\ reqs'[r].why \in {"nouser", "badpw"} =>
            /\ AtReturn(r)'
            /\ Seen(reqs'[r]) = Rejected
       /\ reqs[r].why \in {"nouser", "badpw"} => OnlyReturns(r)]_vars

C3_Witness ==
  \E r \in Slots, o \in Slots :
    /\ reqs[r].why = "nouser" /\ reqs[o].why = "badpw"
    /\ Seen(reqs[r]) = Seen(reqs[o])

\* C4: signUp or signUpAdmin with a registered email fails with Conflict and
\* writes nothing: no user, no refresh-token record, no cache entry.
C4_DuplicateEmailConflictWritesNothing ==
  [][\A r \in Slots :
       /\ Arrives(r) /\ CreatesUser(reqs'[r]) /\ FindByEmail(reqs'[r].email) # 0 =>
            /\ AtReturn(r)'
            /\ reqs'[r].result = "Conflict"
            /\ UNCHANGED <<users, stores, issued>>
       /\ reqs[r].result = "Conflict" => OnlyReturns(r)]_vars

C4_Witness ==
  \E r \in Slots, o \in Slots :
    /\ reqs[r].op = "signUp" /\ reqs[r].result = "Conflict"
    /\ reqs[o].op = "signUpAdmin" /\ reqs[o].result = "Conflict"

\* The stores hold, for the call's pair, exactly the tokens the call returns.
HoldsTokensOf(r) ==
  LET q == reqs[r]
  IN /\ Records(r) = {Entry(q.user, q.deviceId, RefreshToken(q.tokens))}
     /\ Entries(r) = {Entry(q.user, q.deviceId, AccessToken(q.tokens))}
\* The tokens the call returns are not among those the pair held on arrival.
Rotated(r) ==
  /\ RefreshToken(reqs[r].tokens) \notin reqs[r].before
  /\ AccessToken(reqs[r].tokens) \notin reqs[r].before
\* The credentials are those a user registered with.
MatchesUser(q) ==
  \E i \in 1..Len(users) :
    users[i].email = q.email /\ Compare(q.password, users[i].password)

C5_AtReturn(r) ==
  /\ reqs[r].op \in {"signUp", "signIn"} /\ Succeeded(r) /\ Undisturbed(r) =>
       HoldsTokensOf(r)
  /\ reqs[r].op = "signIn" /\ Succeeded(r) => Rotated(r)
  /\ reqs[r].op = "signIn" /\ AtReturn(r) /\ reqs[r].why = "none" => Succeeded(r)

\* C5: a signUp that returns T1 leaves exactly T1 in the two stores, a signIn
\* with the credentials of a registered user succeeds, and when it returns T2
\* with no other request having touched the pair, T2 is none of the tokens the
\* pair held when it arrived (T1, after a signUp or an earlier signIn) and each
\* store holds exactly one entry for the pair, T2's.
C5_SignInAfterSignUpReplacesTokens ==
  [][\A r \in Slots :
       /\ Arrives(r) /\ reqs'[r].op = "signIn" /\ MatchesUser(reqs'[r]) =>
            reqs'[r].result = "none" /\ reqs'[r].pc = "del"
       /\ C5_AtReturn(r)']_vars

C5_Witness ==
  \E r \in Slots :
    /\ reqs[r].op = "signIn" /\ Succeeded(r) /\ Undisturbed(r)
    /\ overlaps = 0
    /\ Cardinality(reqs[r].before) = 2
    /\ HoldsTokensOf(r)

\* C6 as stated: once signUpAdmin's re-verification of the password has
\* failed, the call ends with Unauthorized and no session: no token pair, no
\* refresh-token record, no cache entry.  The code tests the Promise of
\* bcrypt.compare, never its value, so the call goes on to issue a session.
C6_FailedSelfCheckBlocksSession ==
  \A r \in Slots :
    reqs[r].op = "signUpAdmin" /\ reqs[r].check = "fail" =>
      /\ reqs[r].result = "Unauthorized"
      /\ reqs[r].tokens = 0
      /\ Records(r) = {} /\ Entries(r) = {}

\* C7 as stated: a refreshToken that succeeds returns tokens that differ from
\* those stored for the pair before the call, and at its return the stores hold
\* the returned tokens.  A logout landing before the return breaks the second
\* half.
C7_RefreshRotatesAndStores ==
  \A r \in Slots :
    reqs[r].op = "refreshToken" /\ Succeeded(r) => Rotated(r) /\ HoldsTokensOf(r)

\* C7, amended: the returned tokens always differ from those stored before the
\* call; the stores hold them at the return when no other request deleted or
\* wrote the pair's record or entry during the call.
C7_RefreshRotatesAndStoresUndisturbed ==
  \A r \in Slots :
    reqs[r].op = "refreshToken" /\ Succeeded(r) =>
      /\ Rotated(r)
      /\ Undisturbed(r) => HoldsTokensOf(r)

C7_Witness ==
  \E r \in Slots :
    /\ reqs[r].op = "refreshToken" /\ Succeeded(r) /\ Undisturbed(r)
    /\ Cardinality(reqs[r].before) = 2

\* C8: logout is delete-if-present.  It is never refused; a delete that finds
\* nothing for the pair leaves its store as it was; the call always ends
\* without error; and what one undisturbed logout leaves, nothing for the pair,
\* is what a second one finds and leaves.
C8_LogoutIdempotent ==
  [][\A r \in Slots :
       /\ Arrives(r) /\ reqs'[r].op = "logout" => reqs'[r].pc = "del"
       /\ reqs[r].op = "logout" /\ reqs[r].pc = "del" /\ Acts(r) =>
            LET u == reqs[r].userId
                d == reqs[r].deviceId
            IN /\ Of(refreshTokens, u, d) = {} => UNCHANGED refreshTokens
               /\ Of(cacheTokens, u, d) = {} => UNCHANGED cacheTokens
               /\ UNCHANGED <<users, issued>>
               /\ AtReturn(r)' => reqs'[r].result = "ok"
               /\ AtReturn(r)' /\ Undisturbed(r)' =>
                    Of(refreshTokens', u, d) = {} /\ Of(cacheTokens', u, d) = {}]_vars

C8_Witness ==
  \E r \in Slots :
    /\ reqs[r].op = "logout" /\ Succeeded(r) /\ Undisturbed(r)
    /\ reqs[r].before = {}
    /\ refreshTokens # {} /\ cacheTokens # {}

\* The session of the call's pair: Active with a record and an entry, NoSession
\* with neither.
ActiveNow(r) == Cardinality(Records(r)) = 1 /\ Cardinality(Entries(r)) = 1
NoSessionNow(r) == Records(r) = {} /\ Entries(r) = {}
ActiveBefore(q) == Cardinality(q.before) = 2
NoSessionBefore(q) == q.before = {}

\* What C9 says of every call but the one that opens a session.
C9_Rest(r) ==
  LET q == reqs[r]
  IN /\ Succeeded(r) /\ Undisturbed(r) =>
          /\ q.op = "refreshToken" /\ ActiveBefore(q) => ActiveNow(r)
          /\ q.op = "logout" => NoSessionNow(r)
          /\ q.op = "signIn" => HoldsTokensOf(r) /\ Stored(q.user, q.deviceId) \cap q.before = {}
     /\ q.op = "signIn" /\ AtReturn(r) /\ ~Succeeded(r) => q.why \in {"nouser", "badpw"}

\* C9 as stated: a pair goes from NoSession to Active only on a successful
\* sign-up or sign-in, stays Active on refresh, goes to NoSession on logout,
\* and a signIn on an Active session is not refused and ends Active with the new
\* tokens in place of the old.  refreshToken asks for no session: called for a
\* pair without one, it opens one.
C9_SessionOpenedOnlyBySignUpOrSignIn ==
  \A r \in Slots :
    /\ Succeeded(r) /\ Undisturbed(r) /\ NoSessionBefore(reqs[r]) /\ ActiveNow(r) =>
         reqs[r].op \in {"signUp", "signUpAdmin", "signIn"}
    /\ C9_Rest(r)

\* C9, amended: a pair goes from NoSession to Active on a successful sign-up,
\* sign-in or refreshToken; the rest as stated.
C9_SessionStateMachine ==
  \A r \in Slots :
    /\ Succeeded(r) /\ Undisturbed(r) =>
         (ActiveNow(r) <=> reqs[r].op \in {"signUp", "signUpAdmin", "signIn", "refreshToken"})
    /\ C9_Rest(r)

C9_Witness ==
  \E r \in Slots :
    /\ reqs[r].op = "signIn" /\ Succeeded(r) /\ Undisturbed(r)
    /\ ActiveBefore(reqs[r])
    /\ ActiveNow(r)

\* Two signIn calls for the same pair stand at their return, and no third
\* request wrote the pair while either was in flight.
BothSignedIn(r, o) ==
  /\ r # o
  /\ reqs[r].op = "signIn" /\ reqs[o].op = "signIn"
  /\ Succeeded(r) /\ Succeeded(o)
  /\ reqs[r].user = reqs[o].user /\ reqs[r].deviceId = reqs[o].deviceId
  /\ reqs[r].clash \subseteq {o} /\ reqs[o].clash \subseteq {r}

\* C10: once two concurrent signIn calls for the same pair have both run to
\* their return, the pair has one cache entry and one record, each issued to one
\* of the two calls, and not always to the same call (C10_Witness).
C10_ConcurrentSignInsLeaveEitherCallsTokens ==
  \A r \in Slots, o \in Slots :
    BothSignedIn(r, o) =>
      LET u == reqs[r].user
          d == reqs[r].deviceId
      IN /\ Entries(r) \in {{Entry(u, d, AccessToken(reqs[r].tokens))},
                            {Entry(u, d, AccessToken(reqs[o].tokens))}}
         /\ Records(r) \in {{Entry(u, d, RefreshToken(reqs[r].tokens))},
                            {Entry(u, d, RefreshToken(reqs[o].tokens))}}

C10_Witness ==
  \E r \in Slots, o \in Slots :
    /\ BothSignedIn(r, o)
    /\ Entries(r) = {Entry(reqs[r].user, reqs[r].deviceId, AccessToken(reqs[r].tokens))}
    /\ Records(r) = {Entry(reqs[r].user, reqs[r].deviceId, RefreshToken(reqs[o].tokens))}

\* A store operation of the call in slot r has been rejected.
FailedCall(r) == reqs[r].failed # "none"
\* The step is the rejection of a store operation of the call in slot r.
FailsNow(r) == InFlight(r) /\ ~FailedCall(r) /\ FailedCall(r)'
\* The pair of the call has a complete session: a record and an entry.
CompleteSession(r) == Records(r) # {} /\ Entries(r) # {}
\* The user the call created is in the users table.
UserPersisted(r) ==
  /\ reqs[r].user \in 1..Len(users)
  /\ users[reqs[r].user].email = reqs[r].email

\* What C11 says of a call one of whose two concurrent store operations is
\* rejected: the call ends with the store's error at once and the rejection
\* itself changes no store; afterwards the call keeps that error, never
\* operates on the store that rejected it again (no retry), and deletes
\* nothing it or anyone wrote (no rollback), so the other store's write stays;
\* a sign-up that failed so has its user persisted and, when `always` or when
\* no other request wrote the pair meanwhile, no complete session.
C11_Body(always) ==
  \A r \in Slots :
    /\ FailsNow(r) =>
         /\ AtReturn(r)'
         /\ reqs'[r].result = "StoreError"
         /\ UNCHANGED <<users, stores, issued>>
    /\ FailedCall(r) /\ Acts(r) =>
         /\ reqs'[r] = Idle \/ (AtReturn(r)' /\ reqs'[r].result = "StoreError"
                                              /\ reqs'[r].failed = reqs[r].failed)
         /\ UNCHANGED <<users, issued>>
         /\ reqs[r].failed = "refresh" => UNCHANGED refreshTokens
         /\ reqs[r].failed = "cache" => UNCHANGED cacheTokens
         /\ reqs[r].why = "save" =>
              /\ Records(r) # {} => Of(refreshTokens', PairUser(reqs[r]), reqs[r].deviceId) # {}
              /\ Entries(r) # {} => Of(cacheTokens', PairUser(reqs[r]), reqs[r].deviceId) # {}
    /\ (FailedCall(r) /\ CreatesUser(reqs[r]))' =>
         /\ UserPersisted(r)'
         /\ always \/ Undisturbed(r)' => ~CompleteSession(r)'

\* C11 as stated: a signUp whose token write fails leaves the user persisted
\* and the pair without a complete session, whatever else runs.  A signIn of
\* the new user on the same device, run to its end before the sign-up's write
\* is rejected, leaves the pair with both a record and an entry.
C11_StoreFailureLeavesNoSession == [][C11_Body(TRUE)]_vars

\* C11, amended: the same, the pair being without a complete session when no
\* other request deleted or wrote its record or entry during the sign-up.
C11_StoreFailureLeavesNoSessionUndisturbed == [][C11_Body(FALSE)]_vars

C11_Witness ==
  \E r \in Slots :
    /\ reqs[r].op = "signUp" /\ reqs[r].failed = "refresh" /\ reqs[r].pending = {}
    /\ Undisturbed(r) /\ UserPersisted(r)
    /\ Records(r) = {}
    /\ Entries(r) = {Entry(reqs[r].user, reqs[r].deviceId, AccessToken(reqs[r].tokens))}

\* The step is one of a signIn, logout or refreshToken call in slot r, its
\* arrival included.
SessionStep(r) ==
  /\ Arrives(r) \/ Acts(r)
  /\ (IF InFlight(r) THEN reqs[r] ELSE reqs'[r]).op \in {"signIn", "logout", "refreshToken"}

\* C12: a user's stored password hash is the one signUp or signUpAdmin computed
\* from the password of the request when it created the user; no later step of
\* any call changes the row; and no step of a signIn, logout or refreshToken
\* call writes the users table.
C12_PasswordHashSetOnce ==
  [][/\ Len(users') >= Len(users)
     /\ \A i \in 1..Len(users) : users'[i] = users[i]
     /\ \A r \in Slots :
          /\ SessionStep(r) => UNCHANGED users
          /\ Acts(r) /\ Len(users') > Len(users) =>
               /\ CreatesUser(reqs[r])
               /\ Len(users') = Len(users) + 1
               /\ users'[Len(users')].password = Hash(reqs[r].password)]_vars

C12_Witness ==
  \E r \in Slots :
    /\ reqs[r].op \in {"signIn", "refreshToken"} /\ Succeeded(r)
    /\ reqs[r].user = 2 /\ reqs[r].before # {}
    /\ users[2].password = Hash(PasswordOf(users[2].email))

\* The pair holds none of the tokens it held when the call arrived.
OldGone(r) == Stored(PairUser(reqs[r]), reqs[r].deviceId) \cap reqs[r].before = {}

\* C13: within one signIn or refreshToken call, a step of the delete phase
\* writes nothing, the write phase starts only with the step that completes
\* the second of the two deletes, whichever it is, and from then on the pair
\* holds none of its old tokens; the writes follow one store at a time in
\* either order.
C13_DeletesCompleteBeforeWrites ==
  [][\A r \in Slots :
       reqs[r].op \in {"signIn", "refreshToken"} /\ Acts(r) =>
         LET q == reqs[r]
         IN /\ q.pc = "del" =>
                 /\ refreshTokens' \subseteq refreshTokens
                 /\ cacheTokens' \subseteq cacheTokens
                 /\ reqs'[r].pc \in {"del", "save"}
                 /\ reqs'[r].pc = "save" <=> Cardinality(q.pending) = 1
                 /\ reqs'[r].pc = "save" => OldGone(r)' /\ reqs'[r].pending = BothStores
            /\ q.pc = "save" =>
                 /\ OldGone(r) /\ OldGone(r)'
                 /\ \/ /\ refreshTokens' # refreshTokens
                       /\ cacheTokens' = cacheTokens
                       /\ "refresh" \in q.pending
                    \/ /\ cacheTokens' # cacheTokens
                       /\ refreshTokens' = refreshTokens
                       /\ "cache" \in q.pending]_vars

C13_Witness ==
  \E r \in Slots, o \in Slots :
    /\ reqs[r].op = "signIn" /\ reqs[r].pc = "save" /\ reqs[r].pending = {"cache"}
    /\ reqs[o].op = "refreshToken" /\ reqs[o].pc = "del" /\ reqs[o].pending = {"refresh"}
    /\ reqs[o].before # {}

Quiescent == \A r \in Slots : ~InFlight(r)
\* The pair has a refresh-token record exactly when it has a cache entry.
RecordIffEntry(u, d) == (Of(refreshTokens, u, d) # {}) <=> (Of(cacheTokens, u, d) # {})

\* C15 as stated: whenever no request is in flight (no store operation ever
\* fails here), each pair has a refresh-token record if and only if it has a
\* cache entry, whatever the interleaving.  A logout running between the two
\* saves of a signIn leaves the entry without the record.
C15_QuiescentRecordIffEntry ==
  Quiescent => \A u \in UserIds, d \in Devices : RecordIffEntry(u, d)

\* C15, amended: the same, for every pair that no request has written while
\* another request was in flight on it.
C15_QuiescentRecordIffEntryUnraced ==
  Quiescent => \A u \in UserIds, d \in Devices : <<u, d>> \notin raced => RecordIffEntry(u, d)

C15_Witness ==
  /\ Quiescent
  /\ overlaps > 0
  /\ \E d \in Devices :
       /\ <<1, d>> \notin raced /\ Of(refreshTokens, 1, d) # {} /\ Of(cacheTokens, 1, d) # {}
       /\ \E e \in Devices : <<1, e>> \in raced


OthersUnchanged(u, d) ==
  /\ {x \in refreshTokens' : x.userId # u \/ x.deviceId # d}
       = {x \in refreshTokens : x.userId # u \/ x.deviceId # d}
  /\ {x \in cacheTokens' : x.userId # u \/ x.deviceId # d}
       = {x \in cacheTokens : x.userId # u \/ x.deviceId # d}

\* C16: no step of a signIn, logout or refreshToken call for a pair changes
\* the record or the entry of another pair, be it another device of the same
\* user or the same device of another user.
C16_OtherPairsUnchanged ==
  [][\A r \in Slots :
       SessionStep(r) =>
         LET q == IF InFlight(r) THEN reqs[r] ELSE reqs'[r]
         IN OthersUnchanged(PairUser(q), q.deviceId)]_vars

C16_Witness ==
  \E r \in Slots, u \in UserIds, d \in Devices :
    /\ reqs[r].op \in {"signIn", "refreshToken", "logout"}
    /\ Succeeded(r) /\ reqs[r].before # {}
    /\ (u = PairUser(reqs[r])) # (d = reqs[r].deviceId)
    /\ Cardinality(Stored(u, d)) = 2

\* C17: a refreshToken call whose userId matches no user fails before any
\* store operation: its arrival deletes and writes nothing and generates no
\* tokens, and all it does afterwards is hand the error to the caller.
C17_RefreshUnknownUserTouchesNothing ==
  [][\A r \in Slots :
       /\ Arrives(r) /\ reqs'[r].op = "refreshToken" /\ FindById(reqs'[r].userId) = 0 =>
            /\ AtReturn(r)'
            /\ reqs'[r].result \notin {"none", "ok"}
            /\ reqs'[r].tokens = 0
            /\ UNCHANGED <<users, stores, issued>>
       /\ reqs[r].why = "nulluser" => OnlyReturns(r)]_vars

C17_Witness ==
  \E r \in Slots :
    /\ reqs[r].why = "nulluser"
    /\ refreshTokens # {} /\ cacheTokens # {}
====
